---- MODULE Spec2Model ----
(***************************************************************************)
(* The concurrent endpoint latency prober of latency.py: address          *)
(* validation, the round scheduler of main() over a ThreadPoolExecutor,   *)
(* KeyboardInterrupt handling, and save_results (aggregate, sort, render).*)
(*                                                                         *)
(* Strings are sequences of one-character strings.  A latency is an       *)
(* integer number of hundredths of a millisecond; float('inf') is INF,    *)
(* which compares greater than every finite latency.                      *)
(*                                                                         *)
(* Spec is a run of main(); FairSpec adds the scheduling of its threads;  *)
(* SaveSpec and RetrySpec call save_results directly, once or repeatedly; *)
(* ValidatorSpec calls validate_ip and parse_address directly.  The text  *)
(* alphabet is ASCII: str.strip(), \d and int() are modelled for it.      *)
(***************************************************************************)
EXTENDS Integers, Sequences, FiniteSets, TLC

\* ------------------------------------------------------------------ bounds
MaxLines == 2       \* lines in the input file
MaxThreads == 2     \* --threads ranges over 1..MaxThreads
MaxLoops == 2       \* --loops ranges over 0..MaxLoops
MaxLatency == 2     \* finite latencies range over 1..MaxLatency
MaxHistory == 3     \* outcomes per address in a dict given to save_results directly
MaxSaves == 2       \* calls of save_results on one dict

INF == MaxLatency + 1
Latencies == 1..MaxLatency

\* ------------------------------------------------------- string primitives
IsSpace(c) == c \in {" ", "\t", "\n", "\r"}
IsDigit(c) == c \in {"0", "1", "2", "3", "4", "5", "6", "7", "8", "9"}

DigitVal(c) ==
    CASE c = "0" -> 0 [] c = "1" -> 1 [] c = "2" -> 2 [] c = "3" -> 3
      [] c = "4" -> 4 [] c = "5" -> 5 [] c = "6" -> 6 [] c = "7" -> 7
      [] c = "8" -> 8 [] c = "9" -> 9

DigitChar(d) ==
    CASE d = 0 -> "0" [] d = 1 -> "1" [] d = 2 -> "2" [] d = 3 -> "3"
      [] d = 4 -> "4" [] d = 5 -> "5" [] d = 6 -> "6" [] d = 7 -> "7"
      [] d = 8 -> "8" [] d = 9 -> "9"

RECURSIVE LStrip(_)
LStrip(s) == IF s # <<>> /\ IsSpace(Head(s)) THEN LStrip(Tail(s)) ELSE s

RECURSIVE RStrip(_)
RStrip(s) ==
    IF s # <<>> /\ IsSpace(s[Len(s)]) THEN RStrip(SubSeq(s, 1, Len(s) - 1)) ELSE s

\* str.strip()
Strip(s) == RStrip(LStrip(s))

\* str.split(sep): always at least one field
RECURSIVE SplitFrom(_, _, _)
SplitFrom(s, sep, cur) ==
    IF s = <<>> THEN <<cur>>
    ELSE IF Head(s) = sep THEN <<cur>> \o SplitFrom(Tail(s), sep, <<>>)
    ELSE SplitFrom(Tail(s), sep, Append(cur, Head(s)))

Split(s, sep) == SplitFrom(s, sep, <<>>)

\* sep.join(parts)
RECURSIVE Join(_, _)
Join(parts, sep) ==
    IF parts = <<>> THEN <<>>
    ELSE IF Len(parts) = 1 THEN parts[1]
    ELSE parts[1] \o sep \o Join(Tail(parts), sep)

AllDigits(s) == s # <<>> /\ \A i \in 1..Len(s) : IsDigit(s[i])

RECURSIVE DecimalValue(_)
DecimalValue(s) ==
    IF s = <<>> THEN 0
    ELSE DecimalValue(SubSeq(s, 1, Len(s) - 1)) * 10 + DigitVal(s[Len(s)])

RECURSIVE Digits(_)
Digits(n) == IF n < 10 THEN <<DigitChar(n)>> ELSE Append(Digits(n \div 10), DigitChar(n % 10))

\* int(s): surrounding whitespace and one sign are accepted (ASCII digits only)
IntBody(s) == IF s # <<>> /\ Head(s) \in {"+", "-"} THEN Tail(s) ELSE s
IntParses(s) == AllDigits(IntBody(Strip(s)))
IntValue(s) ==
    LET t == Strip(s)
    IN  IF t # <<>> /\ Head(t) = "-" THEN 0 - DecimalValue(IntBody(t))
        ELSE DecimalValue(IntBody(t))

\* --------------------------------------------------------------- validator
\* ^(\d{1,3}\.){3}\d{1,3}$ ; "$" also matches before one trailing newline
ipv4_pattern(ip) ==
    LET core == IF ip # <<>> /\ ip[Len(ip)] = "\n" THEN SubSeq(ip, 1, Len(ip) - 1) ELSE ip
        octets == Split(core, ".")
    IN  /\ Len(octets) = 4
        /\ \A i \in 1..4 : AllDigits(octets[i]) /\ Len(octets[i]) <= 3

validate_ip(ip) ==
    IF ipv4_pattern(ip)
    THEN LET octets == Split(ip, ".")
         IN  \A i \in 1..Len(octets) : IntValue(octets[i]) >= 0 /\ IntValue(octets[i]) <= 255
    ELSE FALSE

validate_port(port) == 1 <= port /\ port <= 65535

\* mutant: the port is checked before the address
parse_address_port_first(address) ==
    LET parts == Split(Strip(address), ",")
        ip == Strip(parts[1])
    IN  IF Len(parts) < 2 THEN [err |-> "format", ip |-> <<>>, port |-> 0, info |-> <<>>]
        ELSE IF ~IntParses(parts[2])
             THEN [err |-> "port_number", ip |-> ip, port |-> 0, info |-> <<>>]
        ELSE IF ~validate_port(IntValue(parts[2]))
             THEN [err |-> "port_range", ip |-> ip, port |-> IntValue(parts[2]), info |-> <<>>]
        ELSE IF ~validate_ip(ip) THEN [err |-> "ip", ip |-> ip, port |-> 0, info |-> <<>>]
        ELSE [err |-> "none", ip |-> ip, port |-> IntValue(parts[2]),
              info |-> [i \in 1..(Len(parts) - 2) |-> Strip(parts[i + 2])]]

\* parse_address: err is "none", or names the message of the ValidationError
\* that is raised ("Invalid format", "Invalid IP address", "Invalid port
\* number", "Port out of range")
parse_address(address) ==
    LET parts == Split(Strip(address), ",")
        ip == Strip(parts[1])
    IN  IF Len(parts) < 2 THEN [err |-> "format", ip |-> <<>>, port |-> 0, info |-> <<>>]
        ELSE IF ~validate_ip(ip) THEN [err |-> "ip", ip |-> ip, port |-> 0, info |-> <<>>]
        ELSE IF ~IntParses(parts[2])
             THEN [err |-> "port_number", ip |-> ip, port |-> 0, info |-> <<>>]
        ELSE IF ~validate_port(IntValue(parts[2]))
             THEN [err |-> "port_range", ip |-> ip, port |-> IntValue(parts[2]), info |-> <<>>]
        ELSE [err |-> "none", ip |-> ip, port |-> IntValue(parts[2]),
              info |-> [i \in 1..(Len(parts) - 2) |-> Strip(parts[i + 2])]]

\* -------------------------------------------------------------- aggregator
\* mutant: the failures are not filtered out
valid_latencies_unfiltered(latencies) == latencies

\* [latency for latency in latencies if latency != float('inf')]
valid_latencies(latencies) == SelectSeq(latencies, LAMBDA latency : latency # INF)

\* max(...) of a non-empty list
RECURSIVE max(_)
max(s) ==
    IF Len(s) = 1 THEN s[1]
    ELSE LET m == max(Tail(s)) IN IF s[1] >= m THEN s[1] ELSE m

\* mutant: an address without any success gets latency 0
max_latency_default_zero(latencies) ==
    IF valid_latencies(latencies) # <<>> THEN max(valid_latencies(latencies)) ELSE 0

\* the value save_results stores in max_latencies[address]
max_latency(latencies) ==
    IF latencies # <<>>
    THEN IF valid_latencies(latencies) # <<>> THEN max(valid_latencies(latencies)) ELSE INF
    ELSE INF

\* max_latencies.items(): (address, max latency) in the dict's insertion order
max_latencies(keys, results) ==
    [i \in 1..Len(keys) |-> <<keys[i], max_latency(results[keys[i]])>>]

\* mutant: the items stay in insertion order
insort_unsorted(s, item) == Append(s, item)

\* mutant: an item is placed in front of the items with an equal key
RECURSIVE insort_before_equal(_, _)
insort_before_equal(s, item) ==
    IF s = <<>> THEN <<item>>
    ELSE IF s[1][2] < item[2] THEN <<s[1]>> \o insort_before_equal(Tail(s), item)
    ELSE <<item>> \o s

\* sorted(..., key=lambda item: item[1]): a stable ascending sort
RECURSIVE insort(_, _)
insort(s, item) ==
    IF s = <<>> THEN <<item>>
    ELSE IF s[1][2] <= item[2] THEN <<s[1]>> \o insort(Tail(s), item)
    ELSE <<item>> \o s

RECURSIVE sorted(_)
sorted(items) ==
    IF items = <<>> THEN <<>>
    ELSE insort(sorted(SubSeq(items, 1, Len(items) - 1)), items[Len(items)])

\* ------------------------------------------------------------- result sink
\* f"{ip}:{port}#{info}" from the raw line, or the line itself
display_str(address) ==
    LET parts == Split(Strip(address), ",")
    IN  IF Len(parts) >= 2
        THEN parts[1] \o <<":">> \o parts[2] \o <<"#">> \o Join(SubSeq(parts, 3, Len(parts)), <<" ">>)
        ELSE address

\* f"{max_latency:.2f}" of a latency held in hundredths of a millisecond
format_2f(l) == Digits(l \div 100) \o <<".">> \o <<DigitChar((l % 100) \div 10), DigitChar(l % 10)>>

FailedText == <<" ", "F", "a", "i", "l", "e", "d", "\n">>
MsText == <<" ", "m", "s", "\n">>

\* the line f.write() receives for one item of sorted_results
output_line(item) ==
    IF item[2] = INF THEN display_str(item[1]) \o FailedText
    ELSE display_str(item[1]) \o <<" ">> \o format_2f(item[2]) \o MsText

\* --------------------------------------------------------------- the inputs
LineA == <<"1", ".", "1", ".", "1", ".", "1", ",", "8", "0">>
LineB == <<"8", ".", "8", ".", "8", ".", "8", ",", " ", "5", "3", ",", " ", "U", "S">>
LineBad == <<"9", "9", "9", ".", "1", ".", "1", ".", "1", ",", "8", "0">>
LineBlank == <<" ">>
InputLines == {LineA, LineB, LineBad, LineBlank}

Files == UNION {[1..n -> InputLines] : n \in 0..MaxLines}

\* strings given to validate_ip and parse_address when they are called directly
\* candidate addresses: valid, out of range, wrong field count, non-numeric,
\* leading zeros, four-digit fields, surrounding whitespace, trailing newlines
IpCandidates ==
    {<<"1", ".", "1", ".", "1", ".", "1">>,
     <<"0", ".", "0", ".", "0", ".", "0">>,
     <<"2", "5", "5", ".", "2", "5", "5", ".", "2", "5", "5", ".", "2", "5", "5">>,
     <<"1", "9", "2", ".", "1", "6", "8", ".", "1", ".", "1">>,
     <<"2", "5", "6", ".", "0", ".", "0", ".", "0">>,
     <<"9", "9", "9", ".", "1", ".", "1", ".", "1">>,
     <<"-", "1", ".", "0", ".", "0", ".", "0">>,
     <<"1", ".", "1", ".", "1">>,
     <<"1", ".", "1", ".", "1", ".", "1", ".", "1">>,
     <<"a", ".", "b", ".", "c", ".", "d">>,
     <<"1", "9", "2", ".", "1", "6", "8", ".", "1", ".", "a">>,
     <<>>,
     <<"1", ".", ".", "1", ".", "1">>,
     <<"0", "1", ".", "1", ".", "1", ".", "1">>,
     <<"0", "0", "1", ".", "1", ".", "1", ".", "1">>,
     <<"0", "0", "0", "1", ".", "1", ".", "1", ".", "1">>,
     <<"1", "0", "0", "0", ".", "1", ".", "1", ".", "1">>,
     <<"1", ".", "1", ".", "1", ".", "1", "\n">>,
     <<"1", ".", "1", ".", "1", ".", "1", "\n", "\n">>,
     <<" ", "1", ".", "1", ".", "1", ".", "1">>,
     <<"1", ".", "1", ".", "1", ".", "1", " ">>,
     <<"1", ".", "1", ".", "1", ".", "+", "1">>,
     <<"1", ".", "1", ".", "1", ".", "1", ".">>}

\* candidate port fields
PortCandidates ==
    {<<"8", "0">>,
     <<" ", "4", "4", "3">>,
     <<"6", "5", "5", "3", "5">>,
     <<"6", "5", "5", "3", "6">>,
     <<"0">>,
     <<"1">>,
     <<"a", "b", "c">>,
     <<>>,
     <<"-", "1">>,
     <<"+", "8", "0">>,
     <<"0", "8", "0">>,
     <<"7", "0", "0", "0", "0">>,
     <<"8", " ", "0">>,
     <<"8", "0", " ">>}

\* what follows the port field
TagCandidates ==
    {<<>>,
     <<",", " ", "U", "S", ",", " ", "C", "l", "o", "u", "d", "f", "l", "a", "r", "e">>,
     <<",", "U", "S">>}

AddressCandidates ==
    IpCandidates \cup
    {ip \o <<",">> \o port \o tags :
        ip \in IpCandidates, port \in PortCandidates, tags \in TagCandidates}

\* ---------------------------------------------------------------- the state
VARIABLES
    file,                 \* the lines of the input file main() has not read yet
    threads,              \* args.threads
    loops,                \* args.loops
    pc,                   \* where main() is
    parsed_addresses,     \* list of (ip, port, line)
    invalid_count,
    result_keys,          \* the keys of all_results in insertion order
    all_results,          \* raw line -> list of latencies
    total_tasks,
    completed_tasks,
    loop,                 \* the for-loop variable
    task,                 \* <<round, index>> -> the future of that submission
    num_threads,          \* round -> worker threads its executor has started
    result,               \* what future.result() returned to the loop body
    interrupted,          \* a KeyboardInterrupt has been raised in main()
    since_interrupt,      \* timeout periods elapsed between the interrupt and the handler
    history_at_interrupt, \* all_results when the interrupt was raised
    probes_completed,     \* raw line -> connection attempts that have ended
    sorted_results,       \* save_results' sorted (address, max latency) list
    output,               \* the lines written to the output file
    input_status,         \* whether args.input exists and can be read
    log,                  \* the warnings, the errors and save_results' report, as logged
    save_returned,        \* what the call of save_results returned
    candidate,            \* the string a direct call of the validator is given
    parsed,               \* what parse_address(candidate) returned or raised
    ip_valid,             \* what validate_ip(candidate) returned
    connection            \* how socket.create_connection ended in the probe being handled

vars == <<file, threads, loops, pc, parsed_addresses, invalid_count, result_keys,
          all_results, total_tasks, completed_tasks, loop, task, num_threads, result,
          interrupted, since_interrupt, history_at_interrupt, probes_completed,
          sorted_results, output, input_status, log, save_returned, candidate, parsed,
          ip_valid, connection>>

NoResult == [address |-> <<>>, latency |-> 0, error |-> "None"]
NoConnection == [kind |-> "none", elapsed |-> 0]
NoFile == << <<"absent">> >>
NotParsed == [err |-> "unset", ip |-> <<>>, port |-> 0, info |-> <<>>]

\* one logger call: its level, what it reports, and the reason or number in it
LogEntry(level, event, reason, count) ==
    [level |-> level, event |-> event, reason |-> reason, count |-> count]

Init ==
    /\ \/ input_status = "ok" /\ file \in Files
       \/ input_status = "missing" /\ file = NoFile
       \/ input_status = "unreadable" /\ file \in Files
    /\ threads \in 1..MaxThreads
    /\ loops \in 0..MaxLoops
    /\ pc = "start"
    /\ parsed_addresses = <<>>
    /\ invalid_count = 0
    /\ result_keys = <<>>
    /\ all_results = <<>>
    /\ total_tasks = 0
    /\ completed_tasks = 0
    /\ loop = 0
    /\ task = <<>>
    /\ num_threads = <<>>
    /\ result = NoResult
    /\ interrupted = FALSE
    /\ since_interrupt = 0
    /\ history_at_interrupt = <<>>
    /\ probes_completed = <<>>
    /\ sorted_results = <<>>
    /\ output = NoFile
    /\ log = <<>>
    /\ save_returned = "unset"
    /\ candidate = <<>>
    /\ parsed = NotParsed
    /\ ip_valid = "unset"
    /\ connection = NoConnection

\* ------------------------------------------------------ loading (main 155-194)
\* the stripped, non-blank lines among the lines read, in file order
nonblank_lines(lines) ==
    SelectSeq([i \in 1..Len(lines) |-> Strip(lines[i])], LAMBDA line : line # <<>>)

\* the lines parse_address accepts, as (ip, port, line)
read_addresses(lines) ==
    LET valid == SelectSeq(nonblank_lines(lines), LAMBDA line : parse_address(line).err = "none")
    IN  [i \in 1..Len(valid) |->
            [ip |-> parse_address(valid[i]).ip, port |-> parse_address(valid[i]).port,
             line |-> valid[i]]]

\* logger.warning(f"Skipping invalid address: {e}") for every rejected line
skip_warnings(lines) ==
    LET bad == SelectSeq(nonblank_lines(lines), LAMBDA line : parse_address(line).err # "none")
    IN  [i \in 1..Len(bad) |-> LogEntry("warning", "skipping", parse_address(bad[i]).err, 0)]

\* the keys of {addr[2]: [] for addr in addrs}, in insertion order
RECURSIVE dict_keys(_)
dict_keys(addrs) ==
    IF addrs = <<>> THEN <<>>
    ELSE LET front == dict_keys(SubSeq(addrs, 1, Len(addrs) - 1))
             key == addrs[Len(addrs)].line
         IN  IF \E i \in 1..Len(front) : front[i] = key THEN front ELSE Append(front, key)

KeySet(keys) == {keys[i] : i \in 1..Len(keys)}

NoTask == [state |-> "none", age |-> 0]

\* mutant: main() goes on without a valid address
no_addresses_ignored(addrs) == FALSE

\* "if not parsed_addresses:"
no_addresses(addrs) == addrs = <<>>

\* main() up to the try block.  An unreadable file raises IOError in open() or
\* after some of its lines have been read.
Load ==
    /\ pc = "start"
    /\ IF input_status = "missing"
       THEN /\ log' = Append(log, LogEntry("error", "input_not_found", "", 0))
            /\ pc' = "exit"
            /\ UNCHANGED <<parsed_addresses, invalid_count, result_keys, all_results,
                           total_tasks, task, num_threads, probes_completed>>
       ELSE \E k \in (IF input_status = "unreadable" THEN 0..Len(file) ELSE {Len(file)}) :
            \E addrs \in {read_addresses(SubSeq(file, 1, k))},
               warnings \in {skip_warnings(SubSeq(file, 1, k))} :
                /\ parsed_addresses' = addrs
                /\ invalid_count' = Len(warnings)
                /\ IF input_status = "unreadable"
                   THEN /\ log' = log \o warnings \o <<LogEntry("error", "read_error", "", 0)>>
                        /\ pc' = "exit"
                        /\ UNCHANGED <<result_keys, all_results, total_tasks, task,
                                       num_threads, probes_completed>>
                   ELSE IF no_addresses(addrs)
                   THEN /\ log' = log \o warnings
                                      \o <<LogEntry("warning", "empty_or_invalid", "", 0)>>
                        /\ pc' = "exit"
                        /\ UNCHANGED <<result_keys, all_results, total_tasks, task,
                                       num_threads, probes_completed>>
                   ELSE /\ log' = log \o warnings
                                      \o (IF Len(warnings) > 0
                                          THEN <<LogEntry("warning", "skipped", "", Len(warnings))>>
                                          ELSE <<>>)
                        /\ pc' = "loop"
                        /\ result_keys' = dict_keys(addrs)
                        /\ all_results' = [key \in KeySet(dict_keys(addrs)) |-> <<>>]
                        /\ probes_completed' = [key \in KeySet(dict_keys(addrs)) |-> 0]
                        /\ total_tasks' = Len(addrs) * loops
                        /\ task' = [p \in (0..(loops - 1)) \X (1..Len(addrs)) |-> NoTask]
                        /\ num_threads' = [r \in 0..(loops - 1) |-> 0]
    /\ file' = <<>>
    /\ UNCHANGED <<threads, loops, completed_tasks, loop, result, interrupted,
                   since_interrupt, history_at_interrupt, sorted_results, output,
                   input_status, save_returned, candidate, parsed, ip_valid, connection>>

\* ------------------------------------------------- the executor of one round
\* the positions in parsed_addresses of the submissions of a round
Indexes == {p[2] : p \in DOMAIN task}
Rounds == 0..(loops - 1)
InState(r, st) == {i \in Indexes : task[<<r, i>>].state = st}
Submitted(r) == {i \in Indexes : task[<<r, i>>].state # "none"}
Running == {p \in DOMAIN task : task[p].state = "running"}

\* mutant: one worker thread per submitted task
adjust_thread_count_unbounded(n) == n + 1

\* ThreadPoolExecutor(max_workers=args.threads): submit() starts a worker thread
\* while fewer than max_workers exist
adjust_thread_count(n) == IF n < threads THEN n + 1 ELSE n

\* a worker thread takes the oldest queued work item
CanStart(r, i) ==
    /\ task[<<r, i>>].state = "queued"
    /\ \A j \in InState(r, "queued") : i <= j
    /\ Cardinality(InState(r, "running")) < num_threads[r]

\* shutdown(wait=True) returns: the queue is drained and no worker is in a call
PoolIdle(r) == InState(r, "queued") = {} /\ InState(r, "running") = {}

\* ------------------------------------------------------------- main 196-216
ForLoop ==
    /\ pc = "loop"
    /\ pc' = IF loop < loops THEN "submit" ELSE "save"
    /\ UNCHANGED <<file, threads, loops, parsed_addresses, invalid_count, result_keys,
                   all_results, total_tasks, completed_tasks, loop, task, num_threads,
                   result, interrupted, since_interrupt, history_at_interrupt,
                   probes_completed, sorted_results, output,
                   input_status, log, save_returned, candidate, parsed, ip_valid, connection>>

\* executor.submit(measure_latency, addr, args.timeout) for the next addr
Submit ==
    /\ pc = "submit"
    /\ LET i == Cardinality(Submitted(loop)) + 1
       IN  /\ task' = [task EXCEPT ![<<loop, i>>].state = "queued"]
           /\ num_threads' = [num_threads EXCEPT ![loop] = adjust_thread_count(@)]
           /\ pc' = IF i = Len(parsed_addresses) THEN "wait" ELSE "submit"
    /\ UNCHANGED <<file, threads, loops, parsed_addresses, invalid_count, result_keys,
                   all_results, total_tasks, completed_tasks, loop, result, interrupted,
                   since_interrupt, history_at_interrupt, probes_completed,
                   sorted_results, output, input_status, log, save_returned,
                   candidate, parsed, ip_valid, connection>>

\* a worker thread calls measure_latency
WorkerStart(r, i) ==
    /\ CanStart(r, i)
    /\ task' = [task EXCEPT ![<<r, i>>].state = "running", ![<<r, i>>].age = 0]
    /\ UNCHANGED <<file, threads, loops, pc, parsed_addresses, invalid_count, result_keys,
                   all_results, total_tasks, completed_tasks, loop, num_threads, result,
                   interrupted, since_interrupt, history_at_interrupt, probes_completed,
                   sorted_results, output, input_status, log, save_returned,
                   candidate, parsed, ip_valid, connection>>

\* mutant: measure_latency makes a second connection attempt before it returns
WorkerFinishRetry(r, i) ==
    /\ task[<<r, i>>].state = "running"
    /\ task' = [task EXCEPT ![<<r, i>>] = [state |-> "finished", age |-> 0]]
    /\ probes_completed' = [probes_completed EXCEPT ![parsed_addresses[i].line] = @ + 2]
    /\ UNCHANGED <<file, threads, loops, pc, parsed_addresses, invalid_count, result_keys,
                   all_results, total_tasks, completed_tasks, loop, num_threads, result,
                   interrupted, since_interrupt, history_at_interrupt, sorted_results,
                   output, input_status, log, save_returned, candidate, parsed, ip_valid,
                   connection>>

\* measure_latency returns and the worker sets the future's result.  Only
\* future.result() reads that result, so the way the connection attempt ended
\* is drawn in Yield.
WorkerFinish(r, i) ==
    /\ task[<<r, i>>].state = "running"
    /\ task' = [task EXCEPT ![<<r, i>>] = [state |-> "finished", age |-> 0]]
    /\ probes_completed' = [probes_completed EXCEPT ![parsed_addresses[i].line] = @ + 1]
    /\ UNCHANGED <<file, threads, loops, pc, parsed_addresses, invalid_count, result_keys,
                   all_results, total_tasks, completed_tasks, loop, num_threads, result,
                   interrupted, since_interrupt, history_at_interrupt, sorted_results,
                   output, input_status, log, save_returned, candidate, parsed, ip_valid,
                   connection>>

\* the ways socket.create_connection ends: it returns a socket after some time,
\* or raises socket.timeout, ConnectionRefusedError or another OSError
Connections ==
    [kind : {"connected"}, elapsed : Latencies]
        \cup [kind : {"timeout", "refused", "oserror"}, elapsed : {0}]

\* mutant: "except OSError" comes first and catches its subclasses too
measure_latency_oserror_first(parsed_addr, conn) ==
    IF conn.kind = "connected"
    THEN [address |-> parsed_addr.line, latency |-> conn.elapsed, error |-> "None"]
    ELSE [address |-> parsed_addr.line, latency |-> INF, error |-> "Network error"]

\* measure_latency: (original_address, latency_ms, None) or
\* (original_address, inf, message), by the first except clause that matches
measure_latency(parsed_addr, conn) ==
    IF conn.kind = "connected"
    THEN [address |-> parsed_addr.line, latency |-> conn.elapsed, error |-> "None"]
    ELSE IF conn.kind = "timeout"
    THEN [address |-> parsed_addr.line, latency |-> INF, error |-> "Connection timeout"]
    ELSE IF conn.kind = "refused"
    THEN [address |-> parsed_addr.line, latency |-> INF, error |-> "Connection refused"]
    ELSE [address |-> parsed_addr.line, latency |-> INF, error |-> "Network error"]

\* as_completed yields a finished future; address, latency, error = future.result()
Yield(i, conn) ==
    /\ pc = "wait"
    /\ task[<<loop, i>>].state = "finished"
    /\ connection' = conn
    /\ result' = measure_latency(parsed_addresses[i], conn)
    /\ task' = [task EXCEPT ![<<loop, i>>] = [state |-> "yielded", age |-> 0]]
    /\ pc' = "record"
    /\ UNCHANGED <<file, threads, loops, parsed_addresses, invalid_count, result_keys,
                   all_results, total_tasks, completed_tasks, loop, num_threads,
                   interrupted, since_interrupt, history_at_interrupt, probes_completed,
                   sorted_results, output, input_status, log, save_returned,
                   candidate, parsed, ip_valid>>

\* mutant: the entry is replaced instead of appended to
append_result_overwrite(results, address, latency) ==
    [results EXCEPT ![address] = <<latency>>]

\* mutant: the latency is appended to the list of every address
append_result_everywhere(results, address, latency) ==
    [key \in DOMAIN results |-> Append(results[key], latency)]

\* all_results[address].append(latency)
append_result(results, address, latency) ==
    [results EXCEPT ![address] = Append(@, latency)]

Record ==
    /\ pc = "record"
    /\ all_results' = append_result(all_results, result.address, result.latency)
    /\ pc' = "count"
    /\ UNCHANGED <<file, threads, loops, parsed_addresses, invalid_count, result_keys,
                   total_tasks, completed_tasks, loop, task, num_threads, result,
                   interrupted, since_interrupt, history_at_interrupt, probes_completed,
                   sorted_results, output, input_status, log, save_returned,
                   candidate, parsed, ip_valid, connection>>

\* mutant: the counter is advanced twice for one outcome
CountTwice ==
    /\ pc = "count"
    /\ completed_tasks' = completed_tasks + 2
    /\ result' = NoResult
    /\ connection' = NoConnection
    /\ pc' = "wait"
    /\ UNCHANGED <<file, threads, loops, parsed_addresses, invalid_count, result_keys,
                   all_results, total_tasks, loop, task, num_threads, interrupted,
                   since_interrupt, history_at_interrupt, probes_completed,
                   sorted_results, output, input_status, log, save_returned,
                   candidate, parsed, ip_valid>>

\* completed_tasks += 1 and the progress bar
Count ==
    /\ pc = "count"
    /\ completed_tasks' = completed_tasks + 1
    /\ result' = NoResult
    /\ connection' = NoConnection
    /\ pc' = "wait"
    /\ UNCHANGED <<file, threads, loops, parsed_addresses, invalid_count, result_keys,
                   all_results, total_tasks, loop, task, num_threads, interrupted,
                   since_interrupt, history_at_interrupt, probes_completed,
                   sorted_results, output, input_status, log, save_returned,
                   candidate, parsed, ip_valid>>

\* mutant: the round is left without waiting for the futures that are not done
ExitRoundEarly ==
    /\ pc = "wait"
    /\ InState(loop, "finished") = {}
    /\ loop' = loop + 1
    /\ pc' = "loop"
    /\ UNCHANGED <<file, threads, loops, parsed_addresses, invalid_count, result_keys,
                   all_results, total_tasks, completed_tasks, task, num_threads, result,
                   interrupted, since_interrupt, history_at_interrupt, probes_completed,
                   sorted_results, output, input_status, log, save_returned,
                   candidate, parsed, ip_valid, connection>>

\* as_completed is exhausted and the with block's shutdown(wait=True) returns
ExitRound ==
    /\ pc = "wait"
    /\ InState(loop, "yielded") = Indexes
    /\ PoolIdle(loop)
    /\ loop' = loop + 1
    /\ pc' = "loop"
    /\ UNCHANGED <<file, threads, loops, parsed_addresses, invalid_count, result_keys,
                   all_results, total_tasks, completed_tasks, task, num_threads, result,
                   interrupted, since_interrupt, history_at_interrupt, probes_completed,
                   sorted_results, output, input_status, log, save_returned,
                   candidate, parsed, ip_valid, connection>>

\* ------------------------------------------------------------- cancellation
\* Ctrl+C: KeyboardInterrupt is raised in the main thread inside the try block,
\* between rounds, while submitting, while waiting in as_completed or in the
\* loop body.  One interrupt per run is modelled.
KeyboardInterrupt ==
    /\ ~interrupted
    /\ pc \in {"loop", "submit", "wait", "record", "count"}
    /\ interrupted' = TRUE
    /\ history_at_interrupt' = all_results
    /\ pc' = IF pc = "loop" THEN "except" ELSE "exit_with"
    /\ UNCHANGED <<file, threads, loops, parsed_addresses, invalid_count, result_keys,
                   all_results, total_tasks, completed_tasks, loop, task, num_threads,
                   result, since_interrupt, probes_completed, sorted_results, output,
                   input_status, log, save_returned, candidate, parsed, ip_valid, connection>>

\* the exception leaves the with block: __exit__ runs shutdown(wait=True)
ExitWith ==
    /\ pc = "exit_with"
    /\ PoolIdle(loop)
    /\ pc' = "except"
    /\ UNCHANGED <<file, threads, loops, parsed_addresses, invalid_count, result_keys,
                   all_results, total_tasks, completed_tasks, loop, task, num_threads,
                   result, interrupted, since_interrupt, history_at_interrupt,
                   probes_completed, sorted_results, output,
                   input_status, log, save_returned, candidate, parsed, ip_valid, connection>>

\* mutant: the interrupt is not caught and main() ends with a traceback
ExceptReraise ==
    /\ pc = "except"
    /\ pc' = "crashed"
    /\ UNCHANGED <<file, threads, loops, parsed_addresses, invalid_count, result_keys,
                   all_results, total_tasks, completed_tasks, loop, task, num_threads,
                   result, interrupted, since_interrupt, history_at_interrupt,
                   probes_completed, sorted_results, output,
                   input_status, log, save_returned, candidate, parsed, ip_valid, connection>>

\* except KeyboardInterrupt: log and fall through to save_results
Except ==
    /\ pc = "except"
    /\ pc' = "save"
    /\ UNCHANGED <<file, threads, loops, parsed_addresses, invalid_count, result_keys,
                   all_results, total_tasks, completed_tasks, loop, task, num_threads,
                   result, interrupted, since_interrupt, history_at_interrupt,
                   probes_completed, sorted_results, output,
                   input_status, log, save_returned, candidate, parsed, ip_valid, connection>>

\* ----------------------------------------------------------------- saving
\* mutant: the failures are removed from the lists of the dict it is given
SaveFiltering ==
    /\ pc = "save"
    /\ \E items \in {sorted(max_latencies(result_keys, all_results))} :
          /\ sorted_results' = items
          /\ \E lines \in {[i \in 1..Len(items) |-> output_line(items[i])]} :
                \/ /\ output' = lines
                   /\ log' = Append(log, LogEntry("info", "saved", "", Len(items)))
                \/ /\ output' = output
                   /\ log' = Append(log, LogEntry("error", "save_error", "open", 0))
                \/ \E written \in 0..Len(lines) :
                      /\ output' = SubSeq(lines, 1, written)
                      /\ log' = Append(log, LogEntry("error", "save_error", "write", 0))
    /\ save_returned' = "None"
    /\ all_results' = [key \in DOMAIN all_results |-> valid_latencies(all_results[key])]
    /\ pc' = "done"
    /\ UNCHANGED <<file, threads, loops, parsed_addresses, invalid_count, result_keys,
                   total_tasks, completed_tasks, loop, task, num_threads, result,
                   interrupted, since_interrupt, history_at_interrupt,
                   probes_completed, input_status, candidate, parsed, ip_valid, connection>>

\* save_results(all_results, args.output).  open() or a write may raise IOError:
\* then the file is not created, or holds the lines written before the error;
\* the error is logged and save_results returns None as it does after a save.
Save ==
    /\ pc = "save"
    /\ \E items \in {sorted(max_latencies(result_keys, all_results))} :
          /\ sorted_results' = items
          /\ \E lines \in {[i \in 1..Len(items) |-> output_line(items[i])]} :
                \/ /\ output' = lines
                   /\ log' = Append(log, LogEntry("info", "saved", "", Len(items)))
                \/ /\ output' = output
                   /\ log' = Append(log, LogEntry("error", "save_error", "open", 0))
                \/ \E written \in 0..Len(lines) :
                      /\ output' = SubSeq(lines, 1, written)
                      /\ log' = Append(log, LogEntry("error", "save_error", "write", 0))
    /\ save_returned' = "None"
    /\ pc' = "done"
    /\ UNCHANGED <<file, threads, loops, parsed_addresses, invalid_count, result_keys,
                   all_results, total_tasks, completed_tasks, loop, task, num_threads,
                   result, interrupted, since_interrupt, history_at_interrupt,
                   probes_completed, input_status, candidate, parsed, ip_valid, connection>>

\* ------------------------------------------------------------------- time
\* main() is blocked in as_completed or in shutdown(wait=True)
Blocked ==
    \/ pc = "wait" /\ InState(loop, "finished") = {} /\ InState(loop, "yielded") # Indexes
    \/ pc = "exit_with" /\ ~PoolIdle(loop)

\* One timeout period passes.  socket.create_connection(..., timeout) returns or
\* raises within the period, so a call that has run for a period ends before
\* the next one; steps that do not block take no time.
Tick ==
    /\ Running # {}
    /\ Blocked
    /\ ~\E p \in DOMAIN task : CanStart(p[1], p[2])
    /\ \A p \in Running : task[p].age = 0
    /\ task' = [p \in DOMAIN task |->
                   IF task[p].state = "running" THEN [task[p] EXCEPT !.age = 1] ELSE task[p]]
    /\ since_interrupt' = IF pc = "exit_with" THEN since_interrupt + 1 ELSE since_interrupt
    /\ UNCHANGED <<file, threads, loops, pc, parsed_addresses, invalid_count, result_keys,
                   all_results, total_tasks, completed_tasks, loop, num_threads, result,
                   interrupted, history_at_interrupt, probes_completed, sorted_results,
                   output, input_status, log, save_returned, candidate, parsed, ip_valid,
                   connection>>

\* ------------------------------------------------------------ specification
\* the steps of main() from the try block on
Schedule ==
    \/ ForLoop \/ Submit
    \/ \E i \in Indexes, conn \in Connections : Yield(i, conn)
    \/ Record \/ Count \/ ExitRound \/ ExitWith \/ Except \/ Save

Worker ==
    \E p \in DOMAIN task :
        \/ WorkerStart(p[1], p[2])
        \/ WorkerFinish(p[1], p[2])

Next == Load \/ Schedule \/ Worker \/ KeyboardInterrupt \/ Tick

Spec == Init /\ [][Next]_vars

\* The interpreter keeps running main() and the worker threads, and every
\* connection attempt ends (it is bounded by the socket timeout).
FairSpec == Spec /\ WF_vars(Schedule) /\ WF_vars(Worker)

\* --------------------------------------------- save_results called directly
\* save_results(results, output_filename) on a dict of its caller's choice, as
\* test_save_results calls it: the keys are distinct lines, the values any
\* lists of latencies and inf.
ValidLines == {line \in InputLines : Strip(line) # <<>> /\ parse_address(Strip(line)).err = "none"}

KeyLists ==
    {keys \in UNION {[1..n -> ValidLines] : n \in 1..MaxLines} :
        \A i \in 1..Len(keys) : \A j \in 1..Len(keys) : keys[i] = keys[j] => i = j}

Histories == UNION {[1..n -> Latencies \cup {INF}] : n \in 0..MaxHistory}

SaveInit ==
    /\ result_keys \in KeyLists
    /\ all_results \in [KeySet(result_keys) -> Histories]
    /\ pc = "save"
    /\ file = <<>>
    /\ threads = 1
    /\ loops = 0
    /\ parsed_addresses = <<>>
    /\ invalid_count = 0
    /\ total_tasks = 0
    /\ completed_tasks = 0
    /\ loop = 0
    /\ task = <<>>
    /\ num_threads = <<>>
    /\ result = NoResult
    /\ interrupted = FALSE
    /\ since_interrupt = 0
    /\ history_at_interrupt = <<>>
    /\ probes_completed = <<>>
    /\ sorted_results = <<>>
    /\ output = NoFile
    /\ input_status = "ok"
    /\ log = <<>>
    /\ save_returned = "unset"
    /\ candidate = <<>>
    /\ parsed = NotParsed
    /\ ip_valid = "unset"
    /\ connection = NoConnection

SaveSpec == SaveInit /\ [][Save]_vars

\* the calls of save_results so far
SaveCalls == Cardinality({i \in 1..Len(log) : log[i].event \in {"saved", "save_error"}})

\* the caller calls save_results again with the same dict and file name
SaveAgain ==
    /\ pc = "done"
    /\ SaveCalls < MaxSaves
    /\ pc' = "save"
    /\ UNCHANGED <<file, threads, loops, parsed_addresses, invalid_count, result_keys,
                   all_results, total_tasks, completed_tasks, loop, task, num_threads,
                   result, interrupted, since_interrupt, history_at_interrupt,
                   probes_completed, sorted_results, output, input_status, log,
                   save_returned, candidate, parsed, ip_valid, connection>>

RetrySpec == SaveInit /\ [][Save \/ SaveAgain]_vars

\* ------------------------------------------------ the validator called directly
\* validate_ip(candidate) and parse_address(candidate) on a string of the
\* caller's choice, as test_validate_ip and test_parse_address call them
ValidatorInit ==
    /\ candidate \in AddressCandidates
    /\ parsed = NotParsed
    /\ ip_valid = "unset"
    /\ pc = "validator"
    /\ file = <<>>
    /\ threads = 1
    /\ loops = 0
    /\ parsed_addresses = <<>>
    /\ invalid_count = 0
    /\ result_keys = <<>>
    /\ all_results = <<>>
    /\ total_tasks = 0
    /\ completed_tasks = 0
    /\ loop = 0
    /\ task = <<>>
    /\ num_threads = <<>>
    /\ result = NoResult
    /\ interrupted = FALSE
    /\ since_interrupt = 0
    /\ history_at_interrupt = <<>>
    /\ probes_completed = <<>>
    /\ sorted_results = <<>>
    /\ output = NoFile
    /\ input_status = "ok"
    /\ log = <<>>
    /\ save_returned = "unset"
    /\ connection = NoConnection

ParseAddress ==
    /\ pc = "validator"
    /\ parsed = NotParsed
    /\ parsed' = parse_address(candidate)
    /\ UNCHANGED <<file, threads, loops, pc, parsed_addresses, invalid_count, result_keys,
                   all_results, total_tasks, completed_tasks, loop, task, num_threads,
                   result, interrupted, since_interrupt, history_at_interrupt,
                   probes_completed, sorted_results, output, input_status, log,
                   save_returned, candidate, ip_valid, connection>>

ValidateIp ==
    /\ pc = "validator"
    /\ ip_valid = "unset"
    /\ ip_valid' = IF validate_ip(candidate) THEN "True" ELSE "False"
    /\ UNCHANGED <<file, threads, loops, pc, parsed_addresses, invalid_count, result_keys,
                   all_results, total_tasks, completed_tasks, loop, task, num_threads,
                   result, interrupted, since_interrupt, history_at_interrupt,
                   probes_completed, sorted_results, output, input_status, log,
                   save_returned, candidate, parsed, connection>>

ValidatorSpec == ValidatorInit /\ [][ParseAddress \/ ValidateIp]_vars

\* ------------------------------------------------------------------ helpers
IsPrefix(s, t) == Len(s) <= Len(t) /\ SubSeq(t, 1, Len(s)) = s
EndsWith(s, suffix) ==
    Len(suffix) <= Len(s) /\ SubSeq(s, Len(s) - Len(suffix) + 1, Len(s)) = suffix
Successes(latencies) == {latencies[j] : j \in {j \in 1..Len(latencies) : latencies[j] # INF}}
IsMaxOf(x, S) == x \in S /\ \A y \in S : y <= x
Logged(event) == \E i \in 1..Len(log) : log[i].event = event
\* save_results has returned after writing the whole file
Saved == pc = "done" /\ Logged("saved")
\* the lines save_results writes for its sorted list
RenderedLines == [i \in 1..Len(sorted_results) |-> output_line(sorted_results[i])]
\* the position in the input file of the first valid line equal to line
FirstIndex(line) ==
    CHOOSE i \in 1..Len(parsed_addresses) :
        /\ parsed_addresses[i].line = line
        /\ \A j \in 1..(i - 1) : parsed_addresses[j].line # line

\* ------------------------------------------------------------------- claims

\* C1: every queued or running probe belongs to the round main() is in, and a
\* probe of round r+1 exists only when every probe of round r has completed.
RoundOrdering ==
    /\ \A p \in DOMAIN task : task[p].state \in {"queued", "running"} => p[1] = loop
    /\ \A r \in Rounds : \A i \in Indexes : \A j \in Indexes :
          (r + 1 \in Rounds /\ task[<<r + 1, i>>].state # "none")
              => task[<<r, j>>].state \in {"finished", "yielded"}

\* a probe of the second round is running
RoundOrderingWitness ==
    \E i \in Indexes : 1 \in Rounds /\ task[<<1, i>>].state = "running"

\* C2: the number of probes executing at the same time is at most args.threads.
ConcurrencyBound == Cardinality(Running) <= threads

\* the pool is full while another task of the round waits in the queue
ConcurrencyBoundWitness ==
    /\ Cardinality(Running) = threads
    /\ \E r \in Rounds : InState(r, "queued") # {}

\* C3: once KeyboardInterrupt has been raised during scheduling, no task is
\* submitted and no round is started any more, and the run reaches the end of
\* save_results with the output written from the history collected so far
\* (unless the output file cannot be written).
CancellationNonFatal ==
    /\ [][interrupted =>
            /\ loop' = loop
            /\ \A p \in DOMAIN task : task[p].state = "none" => task'[p].state = "none"]_vars
    /\ interrupted ~>
          (/\ pc = "done"
           /\ all_results = history_at_interrupt
           /\ sorted_results = sorted(max_latencies(result_keys, history_at_interrupt))
           /\ Logged("save_error") \/ (Logged("saved") /\ output = RenderedLines))

\* an interrupted run has written its output although an endpoint has fewer
\* outcomes than rounds
CancellationNonFatalWitness ==
    /\ interrupted
    /\ Saved
    /\ output # NoFile
    /\ \E k \in DOMAIN all_results : Len(all_results[k]) < loops

\* C4: after the interrupt main() reaches the except clause within one timeout
\* period.
PromptReturn == since_interrupt <= 1

\* C5: every entry of all_results only grows by appending, and the history
\* save_results receives extends the history at the interrupt.
HistoryNeverLost ==
    /\ [][\A k \in DOMAIN all_results :
            k \in DOMAIN all_results' /\ IsPrefix(all_results[k], all_results'[k])]_vars
    /\ []((interrupted /\ pc \in {"save", "done"}) =>
            \A k \in DOMAIN history_at_interrupt :
                IsPrefix(history_at_interrupt[k], all_results[k]))

\* an interrupted run is about to save a history that holds recorded outcomes
HistoryNeverLostWitness ==
    /\ interrupted
    /\ pc = "save"
    /\ \E k \in DOMAIN all_results : Len(all_results[k]) >= 2

\* C6: every validated endpoint has an entry keyed by its line, empty before
\* the first round, never longer than args.loops, and shorter than args.loops
\* at the end only in an interrupted run.
HistoryInvariant ==
    pc \notin {"start", "exit"} =>
        \A i \in 1..Len(parsed_addresses) :
            LET line == parsed_addresses[i].line
            IN  /\ line \in DOMAIN all_results
                /\ (pc = "loop" /\ loop = 0) => all_results[line] = <<>>
                /\ Len(all_results[line]) <= loops
                /\ (pc = "done" /\ Len(all_results[line]) < loops) => interrupted

\* C7: when the scheduler has returned, every endpoint has as many recorded
\* outcomes as probes that completed for it.
OneAppendPerProbe ==
    pc \in {"save", "done"} =>
        \A k \in DOMAIN all_results : Len(all_results[k]) = probes_completed[k]

\* C8: an endpoint with a successful outcome gets the maximum of its
\* successful latencies.
MaxOfSuccessful ==
    pc = "done" =>
        /\ Len(sorted_results) = Len(result_keys)
        /\ \A n \in 1..Len(sorted_results) :
              Successes(all_results[sorted_results[n][1]]) # {}
                  => IsMaxOf(sorted_results[n][2], Successes(all_results[sorted_results[n][1]]))

\* a saved history holds a failure followed by two different successes
MaxOfSuccessfulWitness ==
    /\ pc = "done"
    /\ \E k \in DOMAIN all_results :
          /\ Len(all_results[k]) >= 3
          /\ all_results[k][1] = INF
          /\ Cardinality(Successes(all_results[k])) = 2

\* C9: the latency is finite exactly when the history has a successful
\* outcome; otherwise it is infinite and the line is written as Failed.
FiniteIffSuccess ==
    pc = "done" =>
        \A n \in 1..Len(sorted_results) :
            /\ sorted_results[n][2] # INF <=> Successes(all_results[sorted_results[n][1]]) # {}
            /\ Saved =>
                  /\ sorted_results[n][2] = INF <=> EndsWith(output[n], FailedText)
                  /\ sorted_results[n][2] # INF <=> EndsWith(output[n], MsText)

\* one saved address has no outcome, the other has only failures
FiniteIffSuccessWitness ==
    /\ Saved
    /\ \E k \in DOMAIN all_results : all_results[k] = <<>>
    /\ \E k \in DOMAIN all_results : all_results[k] # <<>> /\ Successes(all_results[k]) = {}

\* C10: the written lines are in non-decreasing order of latency and no Failed
\* line precedes a line with a latency.
OutputSorted ==
    Saved =>
        /\ Len(output) = Len(result_keys)
        /\ \A k \in KeySet(result_keys) :
              \E n \in 1..Len(output) :
                  /\ sorted_results[n][1] = k
                  /\ IsPrefix(display_str(k), output[n])
        /\ \A m \in 1..Len(output) : \A n \in 1..Len(output) :
              m < n =>
                  /\ max_latency(all_results[sorted_results[m][1]])
                        <= max_latency(all_results[sorted_results[n][1]])
                  /\ ~(EndsWith(output[m], FailedText) /\ EndsWith(output[n], MsText))

\* the sort moved the second endpoint of the input in front of the first
OutputSortedWitness ==
    /\ Saved
    /\ Len(output) = 2
    /\ sorted_results[1][1] = result_keys[2]
    /\ EndsWith(output[1], MsText)
    /\ EndsWith(output[2], FailedText)

\* C11: two records with the same latency, and two Failed records, are in
\* the order in which their endpoints appear in the input file, and the lines
\* of the output are written in the order of the records.
StableRanking ==
    pc = "done" =>
        /\ \A m \in 1..Len(sorted_results) : \A n \in 1..Len(sorted_results) :
              (m < n /\ sorted_results[m][2] = sorted_results[n][2])
                  => FirstIndex(sorted_results[m][1]) < FirstIndex(sorted_results[n][1])
        /\ Saved => output = RenderedLines

\* two endpoints were written with the same finite latency
StableRankingWitness ==
    /\ Saved
    /\ Len(output) = 2
    /\ sorted_results[1][2] = sorted_results[2][2]
    /\ EndsWith(output[1], MsText)

\* the line made of the trimmed fields of a validated line: ip, ":", port, "#",
\* the tags joined by one space, " ", and the latency text
TrimmedLine(item) ==
    LET parts == Split(Strip(item[1]), ",")
        fields == [i \in 1..Len(parts) |-> Strip(parts[i])]
        prefix == fields[1] \o <<":">> \o fields[2] \o <<"#">>
                      \o Join(SubSeq(fields, 3, Len(fields)), <<" ">>)
    IN  IF item[2] = INF THEN prefix \o FailedText
        ELSE prefix \o <<" ">> \o format_2f(item[2]) \o MsText

\* C12: every written line consists of the trimmed ip, port and tags of its
\* endpoint followed by the latency with two decimals and " ms", or by "Failed".
RenderedTrimmed ==
    Saved =>
        \A n \in 1..Len(output) : output[n] = TrimmedLine(sorted_results[n])

\* C13: in the line of an endpoint without tags the character after "#" is
\* the first character of the latency or of "Failed", not a separator.
HashPrecedesText ==
    Saved =>
        \A n \in 1..Len(output) :
            Len(Split(Strip(sorted_results[n][1]), ",")) = 2 =>
                \E h \in 1..(Len(output[n]) - 1) :
                    /\ output[n][h] = "#"
                    /\ ~IsSpace(output[n][h + 1])

\* C14: save_results returns its success value only when the file was saved:
\* after an IOError its caller gets a different result.
SaveFailureReported ==
    pc = "done" => (save_returned = "None" <=> Logged("saved"))

IsDottedQuad(s) ==
    LET fields == Split(s, ".")
    IN  /\ Len(fields) = 4
        /\ \A i \in 1..4 : AllDigits(fields[i]) /\ DecimalValue(fields[i]) <= 255

\* C16: validate_ip accepts a string exactly when it consists of four
\* dot-separated numeric fields with values in 0..255.
ValidateIpExact ==
    ip_valid # "unset" => (ip_valid = "True" <=> IsDottedQuad(candidate))

\* the number of lines the reading loop rejected: it logs one warning for each
Rejected == Cardinality({i \in 1..Len(log) : log[i].event = "skipping"})

\* C17: after a readable file has been read, the endpoints kept are trimmed
\* non-blank lines that pass validation, and when lines were rejected their
\* number is reported, also when no line is left.
SkippedReported ==
    (pc # "start" /\ input_status = "ok") =>
        /\ \A i \in 1..Len(parsed_addresses) :
              LET line == parsed_addresses[i].line
              IN  /\ line # <<>> /\ Strip(line) = line
                  /\ parse_address(line).err = "none"
                  /\ parsed_addresses[i].ip = parse_address(line).ip
                  /\ parsed_addresses[i].port = parse_address(line).port
        /\ invalid_count = Rejected
        /\ Rejected > 0 =>
              \E i \in 1..Len(log) : log[i].event = "skipped" /\ log[i].count = Rejected

\* the input file is missing or unreadable, or none of its lines is a valid
\* endpoint
NoValidEndpoint ==
    \/ input_status # "ok"
    \/ \A i \in 1..Len(file) :
          Strip(file[i]) = <<>> \/ parse_address(Strip(file[i])).err # "none"

\* C18: with a missing or unreadable input file, or one without a valid
\* endpoint, main() returns at once; a run that returned there has started no
\* round, issued no probe, not called save_results and left no output file,
\* and does nothing more.
NoRunWithoutEndpoints ==
    /\ [][(pc = "start" /\ NoValidEndpoint) => pc' = "exit"]_vars
    /\ [](pc = "exit" =>
            /\ loop = 0
            /\ task = <<>>
            /\ probes_completed = <<>>
            /\ completed_tasks = 0
            /\ sorted_results = <<>>
            /\ save_returned = "unset"
            /\ output = NoFile)
    /\ [][pc # "exit"]_vars

\* the file became unreadable after a valid endpoint had been read from it
NoRunWithoutEndpointsWitness ==
    /\ pc = "exit"
    /\ input_status = "unreadable"
    /\ parsed_addresses # <<>>

\* C19: the saved output has one line for every validated line of the input,
\* and when no probe succeeded every line is marked Failed.
OneLinePerEndpoint ==
    Saved =>
        /\ Len(output) = Len(parsed_addresses)
        /\ \A i \in 1..Len(parsed_addresses) :
              \E n \in 1..Len(output) :
                  /\ sorted_results[n][1] = parsed_addresses[i].line
                  /\ output[n] = output_line(sorted_results[n])
        /\ (\A k \in DOMAIN all_results : Successes(all_results[k]) = {})
              => \A n \in 1..Len(output) : EndsWith(output[n], FailedText)

\* C20: save_results leaves the dict it is given unchanged, whether the file
\* is written or an IOError occurs; called again on the same dict it computes
\* the same records in the same order, and a call that succeeds, also after a
\* failed one, writes the lines of these records.
SavePure ==
    /\ [][pc = "save" => (all_results' = all_results /\ result_keys' = result_keys)]_vars
    /\ [][(pc = "save" /\ SaveCalls > 0) => sorted_results' = sorted_results]_vars
    /\ [][(pc = "save" /\ log'[Len(log')].event = "saved") => output' = RenderedLines']_vars

\* a save that failed after writing a part of the file was repeated and succeeded
SavePureWitness ==
    /\ pc = "done"
    /\ SaveCalls = 2
    /\ log[1].event = "save_error" /\ log[1].reason = "write"
    /\ log[2].event = "saved"
    /\ Len(output) = 2
    /\ \E k \in DOMAIN all_results : Successes(all_results[k]) # {} /\ Len(all_results[k]) >= 2

\* the message measure_latency returns for the way a connection attempt ended
Classification(kind) ==
    CASE kind = "connected" -> "None"
      [] kind = "timeout" -> "Connection timeout"
      [] kind = "refused" -> "Connection refused"
      [] kind = "oserror" -> "Network error"

\* C21: a probe whose connection attempt failed returns inf with the message
\* of its kind of failure, the loop body appends that outcome to the entry of
\* its address as it appends a latency, and the run goes on: unless it is
\* interrupted it ends in save_results with every probe of every round counted.
ProbeFailureNonFatal ==
    /\ [](pc = "record" =>
            /\ result.error = Classification(connection.kind)
            /\ connection.kind = "connected" => result.latency = connection.elapsed
            /\ connection.kind # "connected" => result.latency = INF)
    /\ [][pc = "record" =>
            /\ pc' \in {"record", "count", "exit_with"}
            /\ IF pc' = "count"
               THEN all_results' = [all_results EXCEPT
                                      ![result.address] = Append(@, result.latency)]
               ELSE all_results' = all_results]_vars
    /\ (pc = "record" /\ result.latency = INF)
          ~> (pc = "done" /\ (~interrupted => completed_tasks = total_tasks))

\* a run that was not interrupted has ended with a failure of each kind
\* recorded, one of them in the first of two rounds
ProbeFailureNonFatalWitness ==
    /\ pc = "done"
    /\ ~interrupted
    /\ loops = 2
    /\ \E k \in DOMAIN all_results : all_results[k][1] = INF /\ Len(all_results[k]) >= 2

\* the sum of f over the finite set S
RECURSIVE SumOf(_, _)
SumOf(f, S) ==
    IF S = {} THEN 0
    ELSE LET x == CHOOSE x \in S : TRUE IN f[x] + SumOf(f, S \ {x})

\* the probes of the endpoints read from one line that have ended
Ended(line) ==
    {p \in DOMAIN task :
        parsed_addresses[p[2]].line = line /\ task[p].state \in {"finished", "yielded"}}

\* C22: every round has one probe per validated line; a probe that has ended
\* made one connection attempt; the probes of earlier rounds have all ended and
\* those of later rounds do not exist; a run that was not interrupted ends
\* with (validated lines x rounds) attempts, one per endpoint and round.
OneAttemptPerRound ==
    pc \notin {"start", "exit", "validator"} =>
        /\ DOMAIN task = Rounds \X (1..Len(parsed_addresses))
        /\ \A k \in DOMAIN probes_completed : probes_completed[k] = Cardinality(Ended(k))
        /\ \A p \in DOMAIN task :
              /\ p[1] < loop => task[p].state = "yielded"
              /\ p[1] > loop => task[p].state = "none"
        /\ (pc \in {"save", "done"} /\ ~interrupted) =>
              /\ \A p \in DOMAIN task : task[p].state = "yielded"
              /\ SumOf(probes_completed, DOMAIN probes_completed)
                    = Len(parsed_addresses) * loops

\* a run of two rounds over two endpoints has ended with four attempts
OneAttemptPerRoundWitness ==
    /\ pc = "done"
    /\ ~interrupted
    /\ loops = 2
    /\ Len(parsed_addresses) = 2
    /\ Len(result_keys) = 2
    /\ SumOf(probes_completed, DOMAIN probes_completed) = 4

\* C23: once all_results exists, a step changes an entry only by recording:
\* main() is at the append, the entry is the one keyed by the line of the
\* outcome in hand and it grows by that outcome's latency; every other entry
\* and the set of keys stay as they are.
RecordFrame ==
    [][pc # "start" =>
          /\ DOMAIN all_results' = DOMAIN all_results
          /\ \A k \in DOMAIN all_results :
                all_results'[k] # all_results[k] =>
                    /\ pc = "record"
                    /\ k = result.address
                    /\ all_results'[k] = Append(all_results[k], result.latency)]_vars

\* the probe of the second endpoint completed first: its outcome has been
\* recorded and the entry of the first endpoint is still empty
RecordFrameWitness ==
    /\ pc = "count"
    /\ Len(result_keys) = 2
    /\ result.address = result_keys[2]
    /\ all_results[result_keys[2]] # <<>>
    /\ all_results[result_keys[1]] = <<>>

\* the number of outcomes recorded in all_results
Recorded == SumOf([k \in DOMAIN all_results |-> Len(all_results[k])], DOMAIN all_results)

\* C24 as stated: in every state of a run the counter equals the number of
\* recorded outcomes and is at most (validated lines x rounds).
ProgressCounterExact ==
    pc \notin {"start", "exit"} =>
        /\ completed_tasks = Recorded
        /\ completed_tasks <= Len(parsed_addresses) * loops

\* C24, amended: the counter equals the number of recorded outcomes whenever
\* main() is outside the loop body's append and increment, and so whenever
\* progress is written; between the two statements, and from then on if the
\* interrupt arrives there, it is one less.  Both numbers are at most
\* total_tasks = validated lines x rounds.
ProgressCounter ==
    pc \notin {"start", "exit"} =>
        /\ completed_tasks <= Recorded
        /\ Recorded <= completed_tasks + 1
        /\ pc \in {"loop", "submit", "wait", "record"} => completed_tasks = Recorded
        /\ pc = "count" => Recorded = completed_tasks + 1
        /\ (pc \in {"save", "done"} /\ ~interrupted) => completed_tasks = Recorded
        /\ total_tasks = Len(parsed_addresses) * loops
        /\ Recorded <= total_tasks

\* the interrupt arrived between the append and the increment, and the run has
\* ended with the counter one behind the recorded outcomes
ProgressCounterWitness ==
    /\ pc = "done"
    /\ interrupted
    /\ Recorded = completed_tasks + 1
====
